---- MODULE Spec2Model ----
(***************************************************************************)
(* FutureTrailingStopOrderOnExtendedHoursRegressionAlgorithm               *)
(* (Algorithm.Python/FutureTrailingStopOrderOnExtendedHoursRegression-     *)
(* Algorithm.py).                                                          *)
(*                                                                         *)
(* The algorithm class has three methods: initialize, the scheduled        *)
(* callback make_market_and_stop_market_order and the handler              *)
(* on_order_event.  They are translated from the Python source.  The       *)
(* engine that calls them (the clock, the scheduler, the order pipeline,   *)
(* the market-hours calendar, the contract mapping) is not part of the     *)
(* source file; it is modelled as the environment, from the behaviour the  *)
(* specification assumes of it.                                            *)
(*                                                                         *)
(* State of the algorithm object                                           *)
(*   sp_500_e_mini     the class attribute of line 23: None, or the        *)
(*                     Future returned by add_future                       *)
(* State of the engine                                                     *)
(*   securities        the instrument subscriptions registered             *)
(*   scheduled_events  the scheduled events registered                     *)
(*   start_date, end_date   the simulated date range                       *)
(*   orders            the orders submitted, in submission order           *)
(*   date              the current day of the run (day of October 2013)    *)
(*   fired             whether the 19:00 event of the day has fired        *)
(*   market_open       per contract, whether its regular session is open   *)
(*   mapped            the contract the continuous future maps to          *)
(*   handled           number of order events passed to on_order_event     *)
(*   order_event       the last order event passed to on_order_event and   *)
(*                     the value is_market_open returned for it            *)
(*   failure           the exception that reached the engine, if any       *)
(* Control                                                                 *)
(*   pc                "new" before initialize, "idle" between callbacks,  *)
(*                     "placed_market" between lines 38 and 39             *)
(***************************************************************************)
EXTENDS Integers, Sequences, FiniteSets

VARIABLES sp_500_e_mini, securities, scheduled_events, start_date, end_date,
          orders, date, fired, market_open, mapped, handled, order_event,
          failure, pc

vars == <<sp_500_e_mini, securities, scheduled_events, start_date, end_date,
          orders, date, fired, market_open, mapped, handled, order_event,
          failure, pc>>

\* ------------------------------------------------------------- bounds

\* Order events the engine delivers in one run.
MaxEvents == 3

\* ---------------------------------------------------------- constants

\* set_start_date(2013, 10, 6): the day of the month.
StartDay == 6

\* set_end_date(2013, 10, 12): the day of the month.
EndDay == 12

\* time_rules.at(19, 0)
ScheduleHour == 19

ScheduleMinute == 0

\* market_order(symbol, 1)
MarketQuantity == 1

\* trailing_stop_order(symbol, -1, 5, False)
TrailingQuantity == -1

TrailingAmount == 5

TrailingAsPercentage == FALSE

StartDate == <<2013, 10, StartDay>>

EndDate == <<2013, 10, EndDay>>

\* The text of the exception of line 44.
RegularHoursFill == "Order filled during regular hours."

NoFailure == "none"

None == "None"

\* The object add_future returns for Futures.Indices.SP_500_E_MINI.
Future == "Future(ES)"

\* The contracts the continuous future can map to, front month first.
Contracts == <<"ES_front", "ES_next">>

Symbols == {Contracts[i] : i \in 1..Len(Contracts)}

\* OrderStatus values an order event can carry.
FILLED == "FILLED"

OrderStatus == {"SUBMITTED", "PARTIALLY_FILLED", FILLED, "CANCELED", "INVALID"}

NoEvent == [symbol |-> None, status |-> "NONE", is_market_open |-> FALSE]

\* ------------------------------------------------------------ helpers

\* add_future without the extended_market_hours argument (its default).
add_future_default_hours == [ticker |-> "ES", resolution |-> "MINUTE",
                             extended_market_hours |-> FALSE]

\* The subscription add_future(SP_500_E_MINI, Resolution.MINUTE,
\* extended_market_hours=True) registers.
add_future == [ticker |-> "ES", resolution |-> "MINUTE",
               extended_market_hours |-> TRUE]

\* The event schedule.on(date_rules.every_day(), time_rules.at(19, 0),
\* make_market_and_stop_market_order) registers.
schedule_on == [date_rule |-> "every_day", hour |-> ScheduleHour,
                minute |-> ScheduleMinute,
                callback |-> "make_market_and_stop_market_order"]

\* The order market_order(symbol, quantity) submits.
market_order(symbol, quantity) ==
    [type |-> "market", symbol |-> symbol, quantity |-> quantity,
     trailing_amount |-> 0, trailing_as_percentage |-> FALSE, date |-> date]

\* The order trailing_stop_order(symbol, quantity, trailing_amount,
\* trailing_as_percentage) submits.
trailing_stop_order(symbol, quantity, amount, as_percentage) ==
    [type |-> "trailing_stop", symbol |-> symbol, quantity |-> quantity,
     trailing_amount |-> amount, trailing_as_percentage |-> as_percentage,
     date |-> date]

\* is_market_open(symbol): the engine's market-hours answer at this instant.
is_market_open(symbol) == market_open[symbol]

\* The run has stopped on an exception.
Aborted == failure # NoFailure

TypeOK ==
    /\ sp_500_e_mini \in {None, Future}
    /\ securities \subseteq {add_future}
    /\ Len(scheduled_events) <= 1
    /\ orders \in Seq([type : {"market", "trailing_stop"}, symbol : Symbols,
                       quantity : Int, trailing_amount : Int,
                       trailing_as_percentage : BOOLEAN, date : Int])
    /\ date \in 0..EndDay
    /\ fired \in BOOLEAN
    /\ market_open \in [Symbols -> BOOLEAN]
    /\ mapped \in Symbols
    /\ handled \in 0..MaxEvents
    /\ failure \in {NoFailure, RegularHoursFill}
    /\ pc \in {"new", "idle", "placed_market"}

\* ---------------------------------------------------------------- Init

Init ==
    /\ sp_500_e_mini = None
    /\ securities = {}
    /\ scheduled_events = <<>>
    /\ start_date = None
    /\ end_date = None
    /\ orders = <<>>
    /\ date = 0
    /\ fired = FALSE
    /\ market_open = [s \in Symbols |-> FALSE]
    /\ mapped = Contracts[1]
    /\ handled = 0
    /\ order_event = NoEvent
    /\ failure = NoFailure
    /\ pc = "new"

\* ------------------------------------------------- the algorithm's code

\* initialize (lines 26-34).  The engine starts its clock on the start date.
initialize ==
    /\ pc = "new"
    /\ start_date' = StartDate
    /\ end_date' = EndDate
    /\ sp_500_e_mini' = Future
    /\ securities' = securities \cup {add_future}
    /\ scheduled_events' = Append(scheduled_events, schedule_on)
    /\ date' = StartDate[3]
    /\ pc' = "idle"
    /\ UNCHANGED <<orders, fired, market_open, mapped, handled, order_event,
                   failure>>

\* make_market_and_stop_market_order, line 38: entered when the scheduled
\* event of the day fires; submits the market order.
make_market_and_stop_market_order_38 ==
    /\ pc = "idle"
    /\ ~Aborted
    /\ ~fired
    /\ \E i \in 1..Len(scheduled_events) :
          /\ scheduled_events[i].date_rule = "every_day"
          /\ scheduled_events[i].callback = "make_market_and_stop_market_order"
    /\ sp_500_e_mini # None
    /\ orders' = Append(orders, market_order(mapped, MarketQuantity))
    /\ pc' = "placed_market"
    /\ UNCHANGED <<sp_500_e_mini, securities, scheduled_events, start_date,
                   end_date, date, fired, market_open, mapped, handled,
                   order_event, failure>>

\* Line 39 with the trailing amount taken as a percentage.
make_market_and_stop_market_order_39_as_percentage ==
    /\ pc = "placed_market"
    /\ orders' = Append(orders,
                        trailing_stop_order(mapped, TrailingQuantity,
                                            TrailingAmount, TRUE))
    /\ pc' = "idle"
    /\ fired' = TRUE
    /\ UNCHANGED <<sp_500_e_mini, securities, scheduled_events, start_date,
                   end_date, date, market_open, mapped, handled, order_event,
                   failure>>

\* Line 39 left out: the callback returns after the market order.
make_market_and_stop_market_order_39_no_stop ==
    /\ pc = "placed_market"
    /\ pc' = "idle"
    /\ fired' = TRUE
    /\ UNCHANGED <<sp_500_e_mini, securities, scheduled_events, start_date,
                   end_date, orders, date, market_open, mapped, handled,
                   order_event, failure>>

\* Line 39 keeping the order ticket in the attribute, as the comment of
\* line 22 describes.
make_market_and_stop_market_order_39_keeps_ticket ==
    /\ pc = "placed_market"
    /\ orders' = Append(orders,
                        trailing_stop_order(mapped, TrailingQuantity,
                                            TrailingAmount,
                                            TrailingAsPercentage))
    /\ sp_500_e_mini' = "OrderTicket"
    /\ pc' = "idle"
    /\ fired' = TRUE
    /\ UNCHANGED <<securities, scheduled_events, start_date,
                   end_date, date, market_open, mapped, handled, order_event,
                   failure>>

\* make_market_and_stop_market_order, line 39: submits the trailing-stop
\* order and returns.  The method has no branch and no raise of its own, so
\* once entered it runs both calls.
make_market_and_stop_market_order_39 ==
    /\ pc = "placed_market"
    /\ orders' = Append(orders,
                        trailing_stop_order(mapped, TrailingQuantity,
                                            TrailingAmount,
                                            TrailingAsPercentage))
    /\ pc' = "idle"
    /\ fired' = TRUE
    /\ UNCHANGED <<sp_500_e_mini, securities, scheduled_events, start_date,
                   end_date, date, market_open, mapped, handled, order_event,
                   failure>>

\* Line 43 with the market test negated.
RaisesOnOrderEvent_closed(symbol, status) ==
    ~is_market_open(symbol) /\ status = FILLED

\* Line 43 without the market test.
RaisesOnOrderEvent_any_fill(symbol, status) ==
    status = FILLED

\* Line 43 without the status test.
RaisesOnOrderEvent_any_status(symbol, status) ==
    is_market_open(symbol)

\* Line 43 with "or" for "and".
RaisesOnOrderEvent_or(symbol, status) ==
    is_market_open(symbol) \/ status = FILLED

\* The condition of line 43.
RaisesOnOrderEvent(symbol, status) ==
    is_market_open(symbol) /\ status = FILLED

\* A handler that answers a fill during regular hours with a new order
\* instead of the exception.
on_order_event_reorders(symbol, status) ==
    /\ order_event' = [symbol |-> symbol, status |-> status,
                       is_market_open |-> is_market_open(symbol)]
    /\ handled' = handled + 1
    /\ orders' = IF is_market_open(symbol) /\ status = FILLED
                 THEN Append(orders, market_order(symbol, MarketQuantity))
                 ELSE orders
    /\ UNCHANGED <<sp_500_e_mini, securities, scheduled_events, start_date,
                   end_date, date, fired, market_open, mapped, pc, failure>>

\* on_order_event (lines 42-44) for the event the engine passes in.
on_order_event(symbol, status) ==
    /\ order_event' = [symbol |-> symbol, status |-> status,
                       is_market_open |-> is_market_open(symbol)]
    /\ handled' = handled + 1
    /\ failure' = IF RaisesOnOrderEvent(symbol, status)
                  THEN RegularHoursFill
                  ELSE failure
    /\ UNCHANGED <<sp_500_e_mini, securities, scheduled_events, start_date,
                   end_date, orders, date, fired, market_open, mapped, pc>>

\* ------------------------------------------------------------ the engine

\* The engine delivers an order event for an order the algorithm submitted,
\* between callbacks or from inside an order call.  An exception the handler
\* raises reaches the engine, which stops the run: no further event is
\* delivered, the clock stops and no scheduled event fires (the guards
\* ~Aborted); a callback the delivery came from returns first.
DeliverOrderEvent ==
    /\ ~Aborted
    /\ handled < MaxEvents
    /\ \E i \in 1..Len(orders), status \in OrderStatus :
          on_order_event(orders[i].symbol, status)

\* The same, for an engine whose fills happen only outside regular hours.
DeliverOrderEventExtendedHours ==
    /\ ~Aborted
    /\ handled < MaxEvents
    /\ \E i \in 1..Len(orders), status \in OrderStatus :
          /\ status = FILLED => ~is_market_open(orders[i].symbol)
          /\ on_order_event(orders[i].symbol, status)

\* The regular session of a contract opens or closes.
SetMarketOpen ==
    /\ pc = "idle"
    /\ ~Aborted
    /\ \E s \in Symbols :
          market_open' = [market_open EXCEPT ![s] = ~market_open[s]]
    /\ UNCHANGED <<sp_500_e_mini, securities, scheduled_events, start_date,
                   end_date, orders, date, fired, mapped, handled,
                   order_event, failure, pc>>

\* The continuous future rolls to the next contract.
Rollover ==
    /\ pc = "idle"
    /\ ~Aborted
    /\ mapped = Contracts[1]
    /\ mapped' = Contracts[2]
    /\ UNCHANGED <<sp_500_e_mini, securities, scheduled_events, start_date,
                   end_date, orders, date, fired, market_open, handled,
                   order_event, failure, pc>>

\* The clock passes midnight; the run ends with the end date.
NextDay ==
    /\ pc = "idle"
    /\ ~Aborted
    /\ fired
    /\ date < end_date[3]
    /\ date' = date + 1
    /\ fired' = FALSE
    /\ UNCHANGED <<sp_500_e_mini, securities, scheduled_events, start_date,
                   end_date, orders, market_open, mapped, handled,
                   order_event, failure, pc>>

Next ==
    \/ initialize
    \/ make_market_and_stop_market_order_38
    \/ make_market_and_stop_market_order_39
    \/ DeliverOrderEvent
    \/ SetMarketOpen
    \/ Rollover
    \/ NextDay

Spec == Init /\ [][Next]_vars

NextExtendedHours ==
    \/ initialize
    \/ make_market_and_stop_market_order_38
    \/ make_market_and_stop_market_order_39
    \/ DeliverOrderEventExtendedHours
    \/ SetMarketOpen
    \/ Rollover
    \/ NextDay

SpecExtendedHours == Init /\ [][NextExtendedHours]_vars

\* ------------------------------------------------------------- counting

\* The orders of one type submitted on day d.
OrdersOn(d, type) ==
    Cardinality({i \in 1..Len(orders) :
                    orders[i].date = d /\ orders[i].type = type})

MarketOrders ==
    Cardinality({i \in 1..Len(orders) : orders[i].type = "market"})

TrailingStopOrders ==
    Cardinality({i \in 1..Len(orders) : orders[i].type = "trailing_stop"})

\* The scheduled event of day d has fired and its callback has returned.
Fired(d) == d < date \/ (d = date /\ fired)

\* Nothing more will run: the run was aborted, or the end date's event is done.
RunEnded ==
    /\ pc = "idle"
    /\ Aborted \/ (date = 12 /\ fired)

\* This step is a call of on_order_event.
HandlesEvent == handled' = handled + 1

\* --------------------------------------------------------------- claims

\* C1: every order event passed to on_order_event while the market of its
\* symbol is open and whose status is FILLED raises the failure "Order
\* filled during regular hours.", and the run is then aborted.
C1_OpenFillRaises ==
    [][(HandlesEvent /\ market_open[order_event'.symbol]
                     /\ order_event'.status = "FILLED")
          => (failure' = "Order filled during regular hours." /\ Aborted')]_vars

C1_Witness ==
    /\ handled > 0
    /\ order_event.is_market_open
    /\ order_event.status = "FILLED"
    /\ failure = "Order filled during regular hours."

\* C2: an order event passed to on_order_event while the market of its
\* symbol is closed raises no failure, whatever its status.
C2_ClosedNeverRaises ==
    [][(HandlesEvent /\ ~market_open[order_event'.symbol])
          => failure' = "none"]_vars

C2_Witness ==
    /\ handled > 0
    /\ ~order_event.is_market_open
    /\ order_event.status = "FILLED"
    /\ failure = "none"

\* C3 as stated: when the run has ended, every day of 6..12 October has
\* exactly two orders, one market order and one trailing-stop order.
C3_TwoOrdersEveryDay ==
    RunEnded =>
        \A d \in 6..12 :
            OrdersOn(d, "market") = 1 /\ OrdersOn(d, "trailing_stop") = 1

\* C3 as amended: every day of the range whose scheduled event has fired has
\* exactly two orders, one market order and one trailing-stop order; a day
\* whose event has not fired has none (one, the market order, while the
\* callback is between its two calls); and in a run that was not aborted the
\* event of every day of the range fires.
C3_TwoOrdersEveryFiredDay ==
    /\ Len(orders) <= 2 * 7
    /\ \A i \in 1..Len(orders) : orders[i].date \in 6..12
    /\ \A d \in 6..12 :
          /\ Fired(d) =>
                OrdersOn(d, "market") = 1 /\ OrdersOn(d, "trailing_stop") = 1
          /\ (~Fired(d) /\ ~(d = date /\ pc = "placed_market")) =>
                OrdersOn(d, "market") = 0 /\ OrdersOn(d, "trailing_stop") = 0
          /\ (d = date /\ pc = "placed_market") =>
                OrdersOn(d, "market") = 1 /\ OrdersOn(d, "trailing_stop") = 0
    /\ (RunEnded /\ ~Aborted) => \A d \in 6..12 : Fired(d)

C3_Witness ==
    /\ RunEnded
    /\ ~Aborted
    /\ Len(orders) = 14
    /\ \A d \in 6..12 : OrdersOn(d, "market") + OrdersOn(d, "trailing_stop") = 2

\* C4: with an engine that delivers every FILLED event while the market of
\* its symbol is closed, no failure is raised in any state of the run.
C4_NoFailureOnExtendedHours == failure = "none"

C4_Witness ==
    /\ date = 12
    /\ fired
    /\ Len(orders) = 14
    /\ handled = MaxEvents
    /\ order_event.status = "FILLED"
    /\ failure = "none"

\* C5: the failure of a fill during regular hours is the only failure:
\* initialize and the scheduled action raise none, and a failure that was
\* raised came from a FILLED event delivered with the market open.  It is
\* terminal: once raised it stays, no scheduled event starts the action
\* again and no order event is handled.
C5_SingleTerminalFailure ==
    /\ [](Aborted => /\ failure = "Order filled during regular hours."
                     /\ handled > 0
                     /\ order_event.status = "FILLED"
                     /\ order_event.is_market_open)
    /\ [][(pc = "new" \/ orders' # orders) => failure' = failure]_vars
    /\ [][Aborted => /\ failure' = failure
                     /\ handled' = handled
                     /\ order_event' = order_event
                     /\ date' = date
                     /\ (pc = "idle" => orders' = orders /\ pc' = "idle")]_vars

C5_Witness ==
    /\ Aborted
    /\ pc = "idle"
    /\ ~fired
    /\ date < 12
    /\ handled < MaxEvents
    /\ Len(orders) >= 2

\* C6: initialize registers exactly one subscription, with extended market
\* hours, and exactly one scheduled event, every day at 19:00 bound to
\* make_market_and_stop_market_order; it submits no order: until the first
\* event fires no order has been submitted.
C6_InitializeRegisters ==
    /\ pc = "new" => (securities = {} /\ scheduled_events = <<>>
                      /\ orders = <<>>)
    /\ pc # "new" =>
          /\ Cardinality(securities) = 1
          /\ \A s \in securities : s.extended_market_hours = TRUE
          /\ Len(scheduled_events) = 1
          /\ scheduled_events[1].date_rule = "every_day"
          /\ scheduled_events[1].hour = 19
          /\ scheduled_events[1].minute = 0
          /\ scheduled_events[1].callback = "make_market_and_stop_market_order"
          /\ start_date = <<2013, 10, 6>>
          /\ end_date = <<2013, 10, 12>>
    /\ (pc = "idle" /\ date = 6 /\ ~fired) => orders = <<>>

C6_Witness ==
    /\ pc = "idle"
    /\ date = 6
    /\ ~fired
    /\ Cardinality(securities) = 1
    /\ Len(scheduled_events) = 1
    /\ orders = <<>>

\* C7: the orders come in pairs, one pair per invocation: first a market
\* order of quantity +1, then a trailing-stop order of quantity -1 with
\* trailing amount 5 as an absolute amount, both for the same symbol, the
\* contract the future maps to when they are submitted.
C7_MarketThenTrailingStop ==
    /\ [](/\ (pc = "placed_market") <=> (Len(orders) % 2 = 1)
          /\ \A i \in 1..Len(orders) :
                IF i % 2 = 1
                THEN /\ orders[i].type = "market"
                     /\ orders[i].quantity = 1
                ELSE /\ orders[i].type = "trailing_stop"
                     /\ orders[i].quantity = -1
                     /\ orders[i].trailing_amount = 5
                     /\ orders[i].trailing_as_percentage = FALSE
                     /\ orders[i].symbol = orders[i - 1].symbol
                     /\ orders[i].date = orders[i - 1].date)
    /\ [][orders' # orders =>
             /\ Len(orders') = Len(orders) + 1
             /\ orders'[Len(orders')].symbol = mapped
             /\ orders'[Len(orders')].date = date
             /\ \A i \in 1..Len(orders) : orders'[i] = orders[i]]_vars

C7_Witness ==
    /\ pc = "idle"
    /\ Len(orders) >= 4
    /\ orders[1].symbol # orders[3].symbol
    /\ orders[3].symbol = orders[4].symbol
    /\ orders[4].type = "trailing_stop"

\* C8: an order event whose status is not FILLED raises no failure, also
\* when the market of its symbol is open.
C8_NotFilledNeverRaises ==
    [][(HandlesEvent /\ order_event'.status # "FILLED")
          => failure' = "none"]_vars

C8_Witness ==
    /\ handled > 0
    /\ order_event.is_market_open
    /\ order_event.status = "CANCELED"
    /\ failure = "none"

C10_TrailingFollowsMarket ==
    /\ [](/\ MarketOrders - TrailingStopOrders \in {0, 1}
          /\ pc # "placed_market" => MarketOrders = TrailingStopOrders)
    /\ [][HandlesEvent => orders' = orders]_vars

C10_Witness ==
    /\ pc = "placed_market"
    /\ Aborted
    /\ MarketOrders = TrailingStopOrders + 1
    /\ TrailingStopOrders >= 1

====
